---- MODULE Spec2Model ----
(***************************************************************************)
(* StokWELL ledger: the user registry (user_manager.py), the stokvel       *)
(* registry (stokvel_manager.py) and the credential helpers (utils.py),    *)
(* operating on one shared in-memory `data` object and a persisted store.  *)
(***************************************************************************)
EXTENDS Integers, Sequences, FiniteSets, TLC

(* ------------------------------------------------------------------ *)
(* Input domains                                                       *)
(* ------------------------------------------------------------------ *)

UserNames == {"alice", "bob"}

Passwords == {"pw1", "pw2"}

StokvelNames == {"s1", "s2"}

\* values datetime.now() may give
Times == {1, 2}

\* total number of contribution records the model lets accumulate
MaxContribs == 2

\* largest absolute user balance update_user_balance is let to reach
MaxBalance == 1

\* characters an amount typed at the prompt is made of, and its largest length
Chars == {"-", "0", "2", "n", "a"}

MaxAmountLen == 3

(* ------------------------------------------------------------------ *)
(* Python numbers: the amounts are floats (utils.validate_amount gives *)
(* float(amount_str)); a float is a finite number or nan.              *)
(* ------------------------------------------------------------------ *)

Num(n) == [nan |-> FALSE, v |-> n]

NaN == [nan |-> TRUE, v |-> 0]

\* x + y
fadd(x, y) == IF x.nan \/ y.nan THEN NaN ELSE Num(x.v + y.v)

\* x == y  (nan compares unequal to everything, itself included)
feq(x, y) == ~x.nan /\ ~y.nan /\ x.v = y.v

\* x <= y
fle(x, y) == ~x.nan /\ ~y.nan /\ x.v <= y.v

\* x > y
fgt(x, y) == ~x.nan /\ ~y.nan /\ x.v > y.v

Amounts == {Num(-1), Num(0), Num(2), NaN}

(* ------------------------------------------------------------------ *)
(* Results of a call                                                   *)
(* ------------------------------------------------------------------ *)

\* `return success, message`
Return(ok, msg) == [raised |-> "", success |-> ok, message |-> msg]

\* an exception leaving the function
Raise(exc) == [raised |-> exc, success |-> FALSE, message |-> <<>>]

\* what a registry function does: the data object afterwards, its result,
\* and whether it reached its save_data(data) call
Outcome(d, r, s) == [data |-> d, ret |-> r, saved |-> s]

EmptyState == [users |-> <<>>, stokvels |-> <<>>]

(* ------------------------------------------------------------------ *)
(* utils.py                                                            *)
(* ------------------------------------------------------------------ *)

\* sha256(password).hexdigest(): a digest, never the password itself;
\* distinct passwords give distinct digests
hash_password(password) == <<"sha256", password>>

\* variant: accepts any password once a digest is stored
verify_password_AnyPassword(password, hashed) == hashed # <<>>

verify_password(password, hashed) == hash_password(password) = hashed

\* strings of at most n characters, as sequences of characters
RECURSIVE StringsUpTo(_)
StringsUpTo(n) ==
    IF n = 0 THEN {<<>>}
    ELSE LET shorter == StringsUpTo(n - 1)
         IN  shorter \cup {Append(s, c) : s \in shorter, c \in Chars}

Digits == {"0", "2"}

DigitValue(c) == IF c = "2" THEN 2 ELSE 0

\* value of a string of decimal digits
RECURSIVE DecimalValue(_)
DecimalValue(s) ==
    IF s = <<>> THEN 0
    ELSE 10 * DecimalValue(SubSeq(s, 1, Len(s) - 1)) + DigitValue(s[Len(s)])

\* float(amount_str): an optional sign, then decimal digits or "nan";
\* anything else raises ValueError
float(amount_str) ==
    LET negative == Len(amount_str) > 0 /\ amount_str[1] = "-"
        body == IF negative THEN Tail(amount_str) ELSE amount_str
    IN  IF Len(body) > 0 /\ \A i \in 1..Len(body) : body[i] \in Digits
        THEN [raised |-> "",
              value  |-> Num(IF negative THEN 0 - DecimalValue(body)
                                         ELSE DecimalValue(body))]
        ELSE IF body = <<"n", "a", "n">>
        THEN [raised |-> "", value |-> NaN]
        ELSE [raised |-> "ValueError", value |-> NaN]

\* a returned pair (amount, error); None is the empty sequence and a value x
\* is <<x>>
AmountResult(amount, error) == [amount |-> amount, error |-> error]

validate_amount(amount_str) ==
    LET parsed == float(amount_str)
    IN  IF parsed.raised = "ValueError"
        THEN AmountResult(<<>>, <<"Invalid amount format">>)
        ELSE IF fle(parsed.value, Num(0))
        THEN AmountResult(<<>>, <<"Amount must be positive">>)
        ELSE AmountResult(<<parsed.value>>, <<>>)

(* ------------------------------------------------------------------ *)
(* data_manager.py: the store, as sections 4.2 and 6 of the            *)
(* specification describe it                                           *)
(* ------------------------------------------------------------------ *)

\* the text written for a mapping: one member per key
json_dump_object(f) == {<<k, f[k]>> : k \in DOMAIN f}

\* the mapping read back from the members of an object
json_load_object(members) ==
    [k \in {m[1] : m \in members} |-> (CHOOSE m \in members : m[1] = k)[2]]

json_dump(d) ==
    [users |-> json_dump_object(d.users), stokvels |-> json_dump_object(d.stokvels)]

json_load(text) ==
    [users |-> json_load_object(text.users), stokvels |-> json_load_object(text.stokvels)]

NoStore == [exists |-> FALSE, content |-> json_dump(EmptyState)]

\* variant: keeps the entries already stored and only adds the new keys
save_data_KeepsOld(st, d) ==
    LET old == IF st.exists THEN json_load(st.content) ELSE EmptyState
        merged == [users    |-> [k \in DOMAIN d.users |->
                                    IF k \in DOMAIN old.users
                                    THEN old.users[k] ELSE d.users[k]],
                   stokvels |-> [k \in DOMAIN d.stokvels |->
                                    IF k \in DOMAIN old.stokvels
                                    THEN old.stokvels[k] ELSE d.stokvels[k]]]
    IN  [exists |-> TRUE, content |-> json_dump(merged)]

\* writes the whole state over the store st
save_data(st, d) == [exists |-> TRUE, content |-> json_dump(d)]

\* variant: a missing store is an error
load_data_MissingIsError(st) ==
    IF st.exists
    THEN [raised |-> "", data |-> json_load(st.content)]
    ELSE [raised |-> "FileNotFoundError", data |-> EmptyState]

load_data(st) ==
    IF st.exists
    THEN [raised |-> "", data |-> json_load(st.content)]
    ELSE [raised |-> "", data |-> EmptyState]

(* ------------------------------------------------------------------ *)
(* user_manager.py                                                     *)
(* ------------------------------------------------------------------ *)

\* d[k] = v on a dict
DictSet(f, k, v) == [x \in (DOMAIN f) \cup {k} |-> IF x = k THEN v ELSE f[x]]

\* variant: the check for an existing username is missing
register_user_Overwrites(d, username, password) ==
    LET user == [password     |-> hash_password(password),
                 balance      |-> Num(0),
                 transactions |-> <<>>,
                 stokvels     |-> <<>>]
        d1 == [d EXCEPT !.users = DictSet(d.users, username, user)]
    IN  Outcome(d1, Return(TRUE, <<"User ", username, " registered successfully!">>), TRUE)

\* variant: the password is stored as given, not its digest
register_user_Plaintext(d, username, password) ==
    IF username \in DOMAIN d.users
    THEN Outcome(d, Return(FALSE, <<"Username already exists!">>), FALSE)
    ELSE LET user == [password     |-> <<"plain", password>>,
                      balance      |-> Num(0),
                      transactions |-> <<>>,
                      stokvels     |-> <<>>]
             d1 == [d EXCEPT !.users = DictSet(d.users, username, user)]
         IN  Outcome(d1,
                     Return(TRUE, <<"User ", username, " registered successfully!">>),
                     TRUE)

\* variant: a new user starts with a balance of 1
register_user_OpeningBalance(d, username, password) ==
    IF username \in DOMAIN d.users
    THEN Outcome(d, Return(FALSE, <<"Username already exists!">>), FALSE)
    ELSE LET user == [password     |-> hash_password(password),
                      balance      |-> Num(1),
                      transactions |-> <<>>,
                      stokvels     |-> <<>>]
             d1 == [d EXCEPT !.users = DictSet(d.users, username, user)]
         IN  Outcome(d1,
                     Return(TRUE, <<"User ", username, " registered successfully!">>),
                     TRUE)

register_user(d, username, password) ==
    IF username \in DOMAIN d.users
    THEN Outcome(d, Return(FALSE, <<"Username already exists!">>), FALSE)
    ELSE LET hashed_password == hash_password(password)
             user == [password     |-> hashed_password,
                      balance      |-> Num(0),
                      transactions |-> <<>>,
                      stokvels     |-> <<>>]
             d1 == [d EXCEPT !.users = DictSet(d.users, username, user)]
         IN  Outcome(d1,
                     Return(TRUE, <<"User ", username, " registered successfully!">>),
                     TRUE)

\* variant: tells an unknown username from a wrong password
login_user_Enumerable(d, username, password) ==
    IF username \notin DOMAIN d.users
    THEN Outcome(d, Return(FALSE, <<"Unknown user.">>), FALSE)
    ELSE IF verify_password(password, d.users[username].password)
    THEN Outcome(d, Return(TRUE, <<"Welcome back, ", username, "!">>), FALSE)
    ELSE Outcome(d, Return(FALSE, <<"Invalid credentials.">>), FALSE)

\* variant: a successful login writes the state back to the store
login_user_Saves(d, username, password) ==
    IF /\ username \in DOMAIN d.users
       /\ verify_password(password, d.users[username].password)
    THEN Outcome(d, Return(TRUE, <<"Welcome back, ", username, "!">>), TRUE)
    ELSE Outcome(d, Return(FALSE, <<"Invalid credentials.">>), FALSE)

login_user(d, username, password) ==
    IF /\ username \in DOMAIN d.users
       /\ verify_password(password, d.users[username].password)
    THEN Outcome(d, Return(TRUE, <<"Welcome back, ", username, "!">>), FALSE)
    ELSE Outcome(d, Return(FALSE, <<"Invalid credentials.">>), FALSE)

update_user_balance(d, username, amount) ==
    IF username \in DOMAIN d.users
    THEN Outcome([d EXCEPT !.users[username].balance = fadd(@, amount)],
                 Return(TRUE, <<>>), TRUE)
    ELSE Outcome(d, Return(FALSE, <<>>), FALSE)

\* variant: the transaction is put in front of the history
add_user_transaction_Prepend(d, username, transaction) ==
    IF username \in DOMAIN d.users
    THEN Outcome([d EXCEPT !.users[username].transactions = <<transaction>> \o @],
                 Return(TRUE, <<>>), TRUE)
    ELSE Outcome(d, Return(FALSE, <<>>), FALSE)

add_user_transaction(d, username, transaction) ==
    IF username \in DOMAIN d.users
    THEN Outcome([d EXCEPT !.users[username].transactions = Append(@, transaction)],
                 Return(TRUE, <<>>), TRUE)
    ELSE Outcome(d, Return(FALSE, <<>>), FALSE)

(* ------------------------------------------------------------------ *)
(* stokvel_manager.py                                                  *)
(* ------------------------------------------------------------------ *)

\* x in a list
InList(x, l) == \E i \in 1..Len(l) : l[i] = x

\* variant: the check for an existing stokvel is missing
create_stokvel_Overwrites(d, stokvel_name, current_user, now) ==
    LET stokvel == [members       |-> <<current_user>>,
                    contributions |-> <<>>,
                    balance       |-> Num(0),
                    created_date  |-> now,
                    created_by    |-> current_user]
        d1 == [d EXCEPT !.stokvels = DictSet(d.stokvels, stokvel_name, stokvel)]
    IN  IF current_user \notin DOMAIN d1.users
        THEN Outcome(d1, Raise("KeyError"), FALSE)
        ELSE LET d2 == [d1 EXCEPT !.users[current_user].stokvels =
                                      Append(@, stokvel_name)]
             IN  Outcome(d2,
                         Return(TRUE, <<"Stokvel '", stokvel_name,
                                        "' created and you have joined it!">>),
                         TRUE)

\* variant: the creator is not put in the members list
create_stokvel_NoCreatorMember(d, stokvel_name, current_user, now) ==
    IF stokvel_name \in DOMAIN d.stokvels
    THEN Outcome(d, Return(FALSE, <<"Stokvel already exists!">>), FALSE)
    ELSE LET stokvel == [members       |-> <<>>,
                         contributions |-> <<>>,
                         balance       |-> Num(0),
                         created_date  |-> now,
                         created_by    |-> current_user]
             d1 == [d EXCEPT !.stokvels = DictSet(d.stokvels, stokvel_name, stokvel)]
         IN  IF current_user \notin DOMAIN d1.users
             THEN Outcome(d1, Raise("KeyError"), FALSE)
             ELSE LET d2 == [d1 EXCEPT !.users[current_user].stokvels =
                                           Append(@, stokvel_name)]
                  IN  Outcome(d2,
                              Return(TRUE, <<"Stokvel '", stokvel_name,
                                             "' created and you have joined it!">>),
                              TRUE)

create_stokvel(d, stokvel_name, current_user, now) ==
    IF stokvel_name \in DOMAIN d.stokvels
    THEN Outcome(d, Return(FALSE, <<"Stokvel already exists!">>), FALSE)
    ELSE LET stokvel == [members       |-> <<current_user>>,
                         contributions |-> <<>>,
                         balance       |-> Num(0),
                         created_date  |-> now,
                         created_by    |-> current_user]
             d1 == [d EXCEPT !.stokvels = DictSet(d.stokvels, stokvel_name, stokvel)]
         IN  IF current_user \notin DOMAIN d1.users
             THEN \* data["users"][current_user] raises after the stokvel is stored
                  Outcome(d1, Raise("KeyError"), FALSE)
             ELSE LET d2 == [d1 EXCEPT !.users[current_user].stokvels =
                                           Append(@, stokvel_name)]
                  IN  Outcome(d2,
                              Return(TRUE, <<"Stokvel '", stokvel_name,
                                             "' created and you have joined it!">>),
                              TRUE)

\* variant: the membership check is missing
contribute_NoMemberCheck(d, stokvel_name, amount, current_user, now) ==
    IF stokvel_name \notin DOMAIN d.stokvels
    THEN Outcome(d, Return(FALSE, <<"Stokvel not found.">>), FALSE)
    ELSE LET contribution_record == [user |-> current_user, amount |-> amount, date |-> now]
             d1 == [d EXCEPT !.stokvels[stokvel_name].balance = fadd(@, amount),
                             !.stokvels[stokvel_name].contributions =
                                 Append(@, contribution_record)]
             transaction == <<"Contributed R", amount, " to ", stokvel_name, " on ", now>>
         IN  IF current_user \notin DOMAIN d1.users
             THEN Outcome(d1, Raise("KeyError"), FALSE)
             ELSE LET d2 == [d1 EXCEPT !.users[current_user].transactions =
                                           Append(@, transaction)]
                  IN  Outcome(d2,
                              Return(TRUE, <<"You contributed R", amount, " to ",
                                             stokvel_name, ".">>),
                              TRUE)

\* variant: the amount is also taken from the contributor's own balance
contribute_DebitsContributor(d, stokvel_name, amount, current_user, now) ==
    IF stokvel_name \notin DOMAIN d.stokvels
    THEN Outcome(d, Return(FALSE, <<"Stokvel not found.">>), FALSE)
    ELSE IF ~InList(current_user, d.stokvels[stokvel_name].members)
    THEN Outcome(d, Return(FALSE, <<"You are not a member of this stokvel.">>), FALSE)
    ELSE LET contribution_record == [user |-> current_user, amount |-> amount, date |-> now]
             d1 == [d EXCEPT !.stokvels[stokvel_name].balance = fadd(@, amount),
                             !.stokvels[stokvel_name].contributions =
                                 Append(@, contribution_record)]
             transaction == <<"Contributed R", amount, " to ", stokvel_name, " on ", now>>
         IN  IF current_user \notin DOMAIN d1.users
             THEN Outcome(d1, Raise("KeyError"), FALSE)
             ELSE LET d2 == [d1 EXCEPT !.users[current_user].transactions =
                                           Append(@, transaction),
                                       !.users[current_user].balance =
                                           fadd(@, Num(0 - amount.v))]
                  IN  Outcome(d2,
                              Return(TRUE, <<"You contributed R", amount, " to ",
                                             stokvel_name, ".">>),
                              TRUE)

contribute(d, stokvel_name, amount, current_user, now) ==
    IF stokvel_name \notin DOMAIN d.stokvels
    THEN Outcome(d, Return(FALSE, <<"Stokvel not found.">>), FALSE)
    ELSE IF ~InList(current_user, d.stokvels[stokvel_name].members)
    THEN Outcome(d, Return(FALSE, <<"You are not a member of this stokvel.">>), FALSE)
    ELSE LET contribution_record == [user |-> current_user, amount |-> amount, date |-> now]
             d1 == [d EXCEPT !.stokvels[stokvel_name].balance = fadd(@, amount),
                             !.stokvels[stokvel_name].contributions =
                                 Append(@, contribution_record)]
             transaction == <<"Contributed R", amount, " to ", stokvel_name, " on ", now>>
         IN  IF current_user \notin DOMAIN d1.users
             THEN \* data["users"][current_user] raises after the stokvel is updated
                  Outcome(d1, Raise("KeyError"), FALSE)
             ELSE LET d2 == [d1 EXCEPT !.users[current_user].transactions =
                                           Append(@, transaction)]
                  IN  Outcome(d2,
                              Return(TRUE, <<"You contributed R", amount, " to ",
                                             stokvel_name, ".">>),
                              TRUE)

\* variant: the stokvel is recorded on the user but the user is not appended
\* to the members
join_stokvel_UserSideOnly(d, stokvel_name, username) ==
    IF stokvel_name \notin DOMAIN d.stokvels
    THEN Outcome(d, Return(FALSE, <<"Stokvel not found.">>), FALSE)
    ELSE IF InList(username, d.stokvels[stokvel_name].members)
    THEN Outcome(d, Return(FALSE, <<"You are already a member of this stokvel.">>), FALSE)
    ELSE IF username \notin DOMAIN d.users
    THEN Outcome(d, Raise("KeyError"), FALSE)
    ELSE LET d2 == [d EXCEPT !.users[username].stokvels = Append(@, stokvel_name)]
         IN  Outcome(d2, Return(TRUE, <<"You have joined ", stokvel_name, "!">>), TRUE)

\* variant: the new member is put in front of the members list
join_stokvel_Prepend(d, stokvel_name, username) ==
    IF stokvel_name \notin DOMAIN d.stokvels
    THEN Outcome(d, Return(FALSE, <<"Stokvel not found.">>), FALSE)
    ELSE IF InList(username, d.stokvels[stokvel_name].members)
    THEN Outcome(d, Return(FALSE, <<"You are already a member of this stokvel.">>), FALSE)
    ELSE LET d1 == [d EXCEPT !.stokvels[stokvel_name].members = <<username>> \o @]
         IN  IF username \notin DOMAIN d1.users
             THEN Outcome(d1, Raise("KeyError"), FALSE)
             ELSE LET d2 == [d1 EXCEPT !.users[username].stokvels =
                                           Append(@, stokvel_name)]
                  IN  Outcome(d2, Return(TRUE, <<"You have joined ", stokvel_name, "!">>),
                              TRUE)

\* variant: the check for an existing membership is missing
join_stokvel_NoMemberCheck(d, stokvel_name, username) ==
    IF stokvel_name \notin DOMAIN d.stokvels
    THEN Outcome(d, Return(FALSE, <<"Stokvel not found.">>), FALSE)
    ELSE LET d1 == [d EXCEPT !.stokvels[stokvel_name].members = Append(@, username)]
         IN  IF username \notin DOMAIN d1.users
             THEN Outcome(d1, Raise("KeyError"), FALSE)
             ELSE LET d2 == [d1 EXCEPT !.users[username].stokvels =
                                           Append(@, stokvel_name)]
                  IN  Outcome(d2, Return(TRUE, <<"You have joined ", stokvel_name, "!">>),
                              TRUE)

join_stokvel(d, stokvel_name, username) ==
    IF stokvel_name \notin DOMAIN d.stokvels
    THEN Outcome(d, Return(FALSE, <<"Stokvel not found.">>), FALSE)
    ELSE IF InList(username, d.stokvels[stokvel_name].members)
    THEN Outcome(d, Return(FALSE, <<"You are already a member of this stokvel.">>), FALSE)
    ELSE LET d1 == [d EXCEPT !.stokvels[stokvel_name].members = Append(@, username)]
         IN  IF username \notin DOMAIN d1.users
             THEN \* data["users"][username] raises after the member is appended
                  Outcome(d1, Raise("KeyError"), FALSE)
             ELSE LET d2 == [d1 EXCEPT !.users[username].stokvels =
                                           Append(@, stokvel_name)]
                  IN  Outcome(d2, Return(TRUE, <<"You have joined ", stokvel_name, "!">>),
                              TRUE)

\* sum(contrib["amount"] for contrib in contributions): 0 + c1 + c2 + ...
RECURSIVE SumAmounts(_)
SumAmounts(contributions) ==
    IF contributions = <<>>
    THEN Num(0)
    ELSE fadd(SumAmounts(SubSeq(contributions, 1, Len(contributions) - 1)),
              contributions[Len(contributions)].amount)

None == [none |-> TRUE]

get_stokvel_summary(d, stokvel_name) ==
    IF stokvel_name \notin DOMAIN d.stokvels
    THEN None
    ELSE LET stokvel == d.stokvels[stokvel_name]
             total_contributions == SumAmounts(stokvel.contributions)
             member_count == Len(stokvel.members)
         IN  [none                |-> FALSE,
              name                |-> stokvel_name,
              balance             |-> stokvel.balance,
              total_contributions |-> total_contributions,
              member_count        |-> member_count,
              members             |-> stokvel.members,
              created_date        |-> stokvel.created_date,
              created_by          |-> stokvel.created_by]

\* variant: the stokvel is looked up with setdefault, which stores an entry
\* for a name that is not there
get_stokvel_summary_call_Setdefault(d, stokvel_name) ==
    IF stokvel_name \in DOMAIN d.stokvels
    THEN Outcome(d, get_stokvel_summary(d, stokvel_name), FALSE)
    ELSE Outcome([d EXCEPT !.stokvels = DictSet(d.stokvels, stokvel_name, <<>>)],
                 None, FALSE)

\* the call of get_stokvel_summary as a step: data["stokvels"].get(name) and
\* reads of the stokvel, no assignment into data and no save_data
get_stokvel_summary_call(d, stokvel_name) ==
    Outcome(d, get_stokvel_summary(d, stokvel_name), FALSE)

(* ------------------------------------------------------------------ *)
(* stokwell_cli_2.py / controller.py: the session of a front end.      *)
(* current_user is <<>> for None and <<username>> when set.            *)
(* ------------------------------------------------------------------ *)

Session(o, cu) == [o |-> o, current_user |-> cu]

\* variant: the username is kept whatever login_user returned
login_AlwaysSets(d, cu, username, password) ==
    Session(login_user(d, username, password), <<username>>)

\* StokWELLCLI.login / Controller.login_user
login(d, cu, username, password) ==
    LET o == login_user(d, username, password)
    IN  Session(o, IF o.ret.success THEN <<username>> ELSE cu)

\* StokWELLCLI.logout / Controller.logout_user
logout(d, cu) == Session(Outcome(d, Return(TRUE, <<>>), FALSE), <<>>)

\* StokWELLCLI.contribute_to_stokvel with the stokvel number and the amount
\* typed at the prompts
contribute_to_stokvel(d, cu, choice, amount_str, now) ==
    IF cu[1] \notin DOMAIN d.users
    THEN Outcome(d, Raise("KeyError"), FALSE)
    ELSE LET user_stokvels == d.users[cu[1]].stokvels
             validated == validate_amount(amount_str)
         IN  IF user_stokvels = <<>>
             THEN Outcome(d, Return(FALSE, <<"You haven't joined any stokvels yet.">>), FALSE)
             ELSE IF choice < 1 \/ choice > Len(user_stokvels)
             THEN Outcome(d, Return(FALSE, <<"Invalid selection.">>), FALSE)
             ELSE IF validated.error # <<>>
             THEN Outcome(d, Return(FALSE, validated.error), FALSE)
             ELSE contribute(d, user_stokvels[choice], validated.amount[1], cu[1], now)

(* ------------------------------------------------------------------ *)
(* State                                                               *)
(* ------------------------------------------------------------------ *)

VARIABLES
    data,        \* the in-memory application state {"users", "stokvels"}
    store,       \* the persisted store
    registered,  \* history: the <<username, password>> pairs registered successfully
    current_user \* the front end's session: <<>> or <<username>>

vars == <<data, store, registered, current_user>>

\* the effect of a finished call on the state: the data object as the call
\* left it, and the store rewritten if the call reached save_data
StoreAfter(o) == IF o.saved THEN save_data(store, o.data) ELSE store

Apply(o) ==
    /\ data' = o.data
    /\ store' = StoreAfter(o)

\* a save_data call whose write fails: the error it raises and the stored
\* document, which stays as it was
save_data_fails(st, d) == [raised |-> "OSError", store |-> st]

\* variant: the error of the write is caught and the result is returned
Persisted_Swallows(o, st, writable) ==
    IF ~o.saved
    THEN [ret |-> o.ret, store |-> st, writes |-> 0]
    ELSE [ret    |-> o.ret,
          store  |-> IF writable THEN save_data(st, o.data) ELSE st,
          writes |-> 1]

\* a call as its caller sees it when the store accepts the write or refuses
\* it: save_data(data) is called once, outside any try, before the return,
\* so its exception leaves the function in place of (success, message)
Persisted(o, st, writable) ==
    IF ~o.saved
    THEN [ret |-> o.ret, store |-> st, writes |-> 0]
    ELSE IF writable
    THEN [ret |-> o.ret, store |-> save_data(st, o.data), writes |-> 1]
    ELSE LET failed == save_data_fails(st, o.data)
         IN  [ret |-> Raise(failed.raised), store |-> failed.store, writes |-> 1]

\* the state after a call that reached save_data while the store refuses writes
ApplyWriteFailure(o) ==
    /\ o.saved
    /\ data' = o.data
    /\ store' = Persisted(o, store, FALSE).store
    /\ UNCHANGED <<registered, current_user>>

Init ==
    /\ data = EmptyState
    /\ store = NoStore
    /\ registered = {}
    /\ current_user = <<>>

\* number of contribution records held by all stokvels together
RECURSIVE CountContribs(_, _)
CountContribs(d, names) ==
    IF names = {} THEN 0
    ELSE LET s == CHOOSE x \in names : TRUE
         IN  Len(d.stokvels[s].contributions) + CountContribs(d, names \ {s})

Register(U, P) ==
    \E u \in U, p \in P :
        LET o == register_user(data, u, p) IN
        /\ Apply(o)
        /\ registered' = IF o.ret.success THEN registered \cup {<<u, p>>} ELSE registered
        /\ UNCHANGED current_user

Login(U, P) ==
    \E u \in U, p \in P :
        /\ Apply(login_user(data, u, p))
        /\ UNCHANGED <<registered, current_user>>

CreateStokvel(S, U, T) ==
    \E s \in S, u \in U, now \in T :
        /\ Apply(create_stokvel(data, s, u, now))
        /\ UNCHANGED <<registered, current_user>>

JoinStokvel(S, U) ==
    \E s \in S, u \in U :
        /\ Apply(join_stokvel(data, s, u))
        /\ UNCHANGED <<registered, current_user>>

Contribute(S, A, U, T) ==
    \E s \in S, a \in A, u \in U, now \in T :
        /\ CountContribs(data, DOMAIN data.stokvels) < MaxContribs
        /\ Apply(contribute(data, s, a, u, now))
        /\ UNCHANGED <<registered, current_user>>

UpdateUserBalance(U, A) ==
    \E u \in U, a \in A :
        LET o == update_user_balance(data, u, a) IN
        /\ u \in DOMAIN data.users =>
               /\ ~o.data.users[u].balance.nan
               /\ o.data.users[u].balance.v <= MaxBalance
               /\ o.data.users[u].balance.v >= 0 - MaxBalance
        /\ Apply(o)
        /\ UNCHANGED <<registered, current_user>>

AddUserTransaction(U, X) ==
    \E u \in U, transaction \in X :
        /\ u \in DOMAIN data.users => Len(data.users[u].transactions) < MaxContribs
        /\ Apply(add_user_transaction(data, u, transaction))
        /\ UNCHANGED <<registered, current_user>>

GetStokvelSummary(S) ==
    \E s \in S :
        /\ Apply(get_stokvel_summary_call(data, s))
        /\ UNCHANGED <<registered, current_user>>

\* a new process: StokWELLCLI.__init__ / Controller.__init__ load the store
Restart ==
    LET loaded == load_data(store) IN
    /\ loaded.raised = ""
    /\ data' = loaded.data
    /\ current_user' = <<>>
    /\ UNCHANGED <<store, registered>>

\* the front end: the menu offers register and login while current_user is
\* None, and create, contribute and logout while it is set
CliRegister(U, P) ==
    /\ current_user = <<>>
    /\ Register(U, P)

CliLogin(U, P) ==
    /\ current_user = <<>>
    /\ \E u \in U, p \in P :
           LET r == login(data, current_user, u, p) IN
           /\ Apply(r.o)
           /\ current_user' = r.current_user
           /\ UNCHANGED registered

CliLogout ==
    /\ current_user # <<>>
    /\ LET r == logout(data, current_user) IN
       /\ Apply(r.o)
       /\ current_user' = r.current_user
       /\ UNCHANGED registered

CliCreateStokvel(S, T) ==
    /\ current_user # <<>>
    /\ \E s \in S, now \in T :
           /\ Apply(create_stokvel(data, s, current_user[1], now))
           /\ UNCHANGED <<registered, current_user>>

CliContribute(X, T) ==
    /\ current_user # <<>>
    /\ CountContribs(data, DOMAIN data.stokvels) < MaxContribs
    /\ \E choice \in 1..Cardinality(StokvelNames), amount_str \in X, now \in T :
           /\ Apply(contribute_to_stokvel(data, current_user, choice, amount_str, now))
           /\ UNCHANGED <<registered, current_user>>

RegisterWriteFails(U, P) ==
    \E u \in U, p \in P : ApplyWriteFailure(register_user(data, u, p))

CreateStokvelWriteFails(S, U, T) ==
    \E s \in S, u \in U, now \in T : ApplyWriteFailure(create_stokvel(data, s, u, now))

JoinStokvelWriteFails(S, U) ==
    \E s \in S, u \in U : ApplyWriteFailure(join_stokvel(data, s, u))

ContributeWriteFails(S, A, U, T) ==
    \E s \in S, a \in A, u \in U, now \in T :
        /\ CountContribs(data, DOMAIN data.stokvels) < MaxContribs
        /\ ApplyWriteFailure(contribute(data, s, a, u, now))

(* ------------------------------------------------------------------ *)
(* Specifications                                                      *)
(* ------------------------------------------------------------------ *)

\* the registry called in any order with any arguments
Next ==
    \/ Register(UserNames, {"pw1"})
    \/ Login(UserNames, Passwords)
    \/ CreateStokvel(StokvelNames, UserNames, {1})
    \/ JoinStokvel(StokvelNames, UserNames)
    \/ Contribute(StokvelNames, {Num(-1), Num(2)}, UserNames, {1})

Spec == Init /\ [][Next]_vars

\* the same calls on one stokvel, with every password, amount and creation date
NextAmounts ==
    \/ Register(UserNames, Passwords)
    \/ Login(UserNames, Passwords)
    \/ CreateStokvel({"s1"}, UserNames, Times)
    \/ JoinStokvel({"s1"}, UserNames)
    \/ Contribute({"s1"}, Amounts, UserNames, {1})

SpecAmounts == Init /\ [][NextAmounts]_vars

\* the registry with its two helper functions, on one stokvel
NextHelpers ==
    \/ Register(UserNames, {"pw1"})
    \/ Login(UserNames, Passwords)
    \/ CreateStokvel({"s1"}, UserNames, {1})
    \/ JoinStokvel({"s1"}, UserNames)
    \/ Contribute({"s1"}, {Num(-1), Num(2)}, UserNames, {1})
    \/ UpdateUserBalance({"alice"}, {Num(-1), Num(2)})
    \/ GetStokvelSummary({"s1", "nosuch"})
    \/ AddUserTransaction({"alice"}, {<<"note">>})

SpecHelpers == Init /\ [][NextHelpers]_vars

\* the registry calls, and the process ending and starting again from the store
NextStore ==
    \/ Register(UserNames, {"pw1"})
    \/ Login(UserNames, Passwords)
    \/ CreateStokvel(StokvelNames, UserNames, {1})
    \/ JoinStokvel(StokvelNames, UserNames)
    \/ Contribute(StokvelNames, {Num(2), NaN}, UserNames, {1})
    \/ Restart

SpecStore == Init /\ [][NextStore]_vars

\* amounts typed at the prompt: positive, negative, zero, nan, not a number, empty
AmountStrings == {<<"2">>, <<"-", "2">>, <<"0">>, <<"n", "a", "n">>, <<"a">>, <<>>}

\* a session of the command-line front end, ended and started again at any time
NextCLI ==
    \/ CliRegister(UserNames, {"pw1"})
    \/ CliLogin(UserNames, Passwords)
    \/ CliLogout
    \/ CliCreateStokvel(StokvelNames, {1})
    \/ CliContribute(AmountStrings, {1})
    \/ Restart

SpecCLI == Init /\ [][NextCLI]_vars

\* the registry on one stokvel with a store that may refuse any write
NextFaulty ==
    \/ Register(UserNames, {"pw1"})
    \/ Login(UserNames, {"pw1"})
    \/ CreateStokvel({"s1"}, UserNames, {1})
    \/ JoinStokvel({"s1"}, UserNames)
    \/ Contribute({"s1"}, {Num(2)}, UserNames, {1})
    \/ RegisterWriteFails(UserNames, {"pw1"})
    \/ CreateStokvelWriteFails({"s1"}, UserNames, {1})
    \/ JoinStokvelWriteFails({"s1"}, UserNames)
    \/ ContributeWriteFails({"s1"}, {Num(2)}, UserNames, {1})

SpecFaulty == Init /\ [][NextFaulty]_vars

(* ------------------------------------------------------------------ *)
(* Arguments the properties quantify over: the names the calls above   *)
(* use, and one username, stokvel name and password no call ever used  *)
(* ------------------------------------------------------------------ *)

AnyUser == UserNames \cup {"nobody"}

AnyStokvel == StokvelNames \cup {"nosuch"}

AnyPassword == Passwords \cup {"guess"}

IsMember(d, s, u) == s \in DOMAIN d.stokvels /\ InList(u, d.stokvels[s].members)

(* ------------------------------------------------------------------ *)
(* Properties                                                          *)
(* ------------------------------------------------------------------ *)

\* C1: in every reachable state, get_stokvel_summary reports
\* total_contributions == balance for every stokvel (the balance equals the
\* sum of the amounts of the contribution records).
C1_BalanceIsSumOfContributions ==
    \A s \in DOMAIN data.stokvels :
        LET summary == get_stokvel_summary(data, s)
        IN  feq(summary.total_contributions, summary.balance)

\* C2: every stokvel name in a user's stokvels list is a key of the stokvel
\* mapping, and that user is in that stokvel's members list.
C2_UserStokvelsReferToMemberships ==
    \A u \in DOMAIN data.users :
        \A i \in 1..Len(data.users[u].stokvels) :
            LET s == data.users[u].stokvels[i]
            IN  /\ s \in DOMAIN data.stokvels
                /\ InList(u, data.stokvels[s].members)

\* a user who created one stokvel and joined another, next to a stokvel whose
\* members list names a username that was never registered
C2_Witness ==
    \E u \in DOMAIN data.users :
        /\ Len(data.users[u].stokvels) = 2
        /\ \E s \in DOMAIN data.stokvels :
               /\ data.stokvels[s].created_by # u
               /\ InList(u, data.stokvels[s].members)
               /\ \E g \in UserNames \ DOMAIN data.users :
                      InList(g, data.stokvels[s].members)

\* C3: register_user, create_stokvel, join_stokvel and contribute are
\* all-or-nothing for every input: a call that does not end in success leaves
\* the users and stokvels mappings exactly as they were.
C3_AllOrNothing ==
    /\ \A u \in AnyUser, p \in AnyPassword :
           LET o == register_user(data, u, p) IN ~o.ret.success => o.data = data
    /\ \A s \in AnyStokvel, u \in AnyUser, now \in Times :
           LET o == create_stokvel(data, s, u, now) IN ~o.ret.success => o.data = data
    /\ \A s \in AnyStokvel, u \in AnyUser :
           LET o == join_stokvel(data, s, u) IN ~o.ret.success => o.data = data
    /\ \A s \in AnyStokvel, a \in Amounts, u \in AnyUser, now \in Times :
           LET o == contribute(data, s, a, u, now) IN ~o.ret.success => o.data = data

\* C4: every call of the five registry functions, with any username and
\* stokvel name, returns a (success, message) result: none raises.
C4_NoUncaughtFault ==
    /\ \A u \in AnyUser, p \in AnyPassword :
           /\ register_user(data, u, p).ret.raised = ""
           /\ login_user(data, u, p).ret.raised = ""
    /\ \A s \in AnyStokvel, u \in AnyUser, now \in Times :
           create_stokvel(data, s, u, now).ret.raised = ""
    /\ \A s \in AnyStokvel, u \in AnyUser :
           join_stokvel(data, s, u).ret.raised = ""
    /\ \A s \in AnyStokvel, a \in Amounts, u \in AnyUser, now \in Times :
           contribute(data, s, a, u, now).ret.raised = ""

\* C5: contribute with amount <= 0, called by a member of an existing
\* stokvel, returns failure and leaves the balance, the contributions and the
\* caller's transactions (the whole data) unchanged. Stated for the members
\* that are registered users, so that the only check at stake is the one on
\* the amount.
C5_NonPositiveAmountRejected ==
    \A s \in AnyStokvel, a \in Amounts, u \in DOMAIN data.users, now \in Times :
        (IsMember(data, s, u) /\ fle(a, Num(0)))
            => LET o == contribute(data, s, a, u, now)
               IN  /\ o.ret.raised = ""
                   /\ ~o.ret.success
                   /\ o.data = data

\* C6: contribute with amount > 0 to an existing stokvel by one of its
\* members succeeds, raises the balance by exactly amount, appends exactly one
\* contribution record {user, amount} and exactly one transaction string.
C6_ContributeSucceeds ==
    \A s \in AnyStokvel, a \in Amounts, u \in AnyUser, now \in Times :
        (IsMember(data, s, u) /\ fgt(a, Num(0)))
            => LET o == contribute(data, s, a, u, now)
                   before == data.stokvels[s]
                   after == o.data.stokvels[s]
               IN  /\ o.ret.raised = ""
                   /\ o.ret.success
                   /\ feq(after.balance, fadd(before.balance, a))
                   /\ Len(after.contributions) = Len(before.contributions) + 1
                   /\ SubSeq(after.contributions, 1, Len(before.contributions))
                          = before.contributions
                   /\ after.contributions[Len(after.contributions)].user = u
                   /\ after.contributions[Len(after.contributions)].amount = a
                   /\ Len(o.data.users[u].transactions)
                          = Len(data.users[u].transactions) + 1
                   /\ SubSeq(o.data.users[u].transactions, 1,
                             Len(data.users[u].transactions))
                          = data.users[u].transactions

\* C7: a contribute call that fails its precondition checks (stokvel absent:
\* "not found"; caller not in the members, registered or not: "not a member")
\* returns failure and leaves every balance, contributions list and
\* transactions list unchanged.
C7_FailedContributeChangesNothing ==
    \A s \in AnyStokvel, a \in Amounts, u \in AnyUser, now \in Times :
        LET o == contribute(data, s, a, u, now)
        IN  /\ s \notin DOMAIN data.stokvels
                => /\ o.ret = Return(FALSE, <<"Stokvel not found.">>)
                   /\ o.data = data
            /\ (s \in DOMAIN data.stokvels /\ ~IsMember(data, s, u))
                => /\ o.ret = Return(FALSE, <<"You are not a member of this stokvel.">>)
                   /\ o.data = data

\* a stokvel holding the contribution of a registered member, with a
\* registered user and a username never registered who are both outside its
\* members, and a stokvel name that is absent
C7_Witness ==
    /\ StokvelNames \ DOMAIN data.stokvels # {}
    /\ \E s \in DOMAIN data.stokvels :
           /\ Len(data.stokvels[s].contributions) > 0
           /\ \E m \in DOMAIN data.users :
                  /\ InList(m, data.stokvels[s].members)
                  /\ Len(data.users[m].transactions) > 0
           /\ \E u \in DOMAIN data.users :
                  /\ ~InList(u, data.stokvels[s].members)
                  /\ ~contribute(data, s, Num(2), u, 1).ret.success
           /\ ~contribute(data, s, Num(2), "nobody", 1).ret.success

\* C8: login_user(u, p) succeeds exactly when u was earlier registered
\* successfully with password p, whatever calls were made since.
C8_LoginIffRegistered ==
    \A u \in AnyUser, p \in AnyPassword :
        login_user(data, u, p).ret.success <=> <<u, p>> \in registered

\* a user registered with one password, after creating a stokvel and
\* contributing to it: the login with that password succeeds, the login with
\* another one fails
C8_Witness ==
    \E u \in DOMAIN data.users, p \in Passwords, q \in Passwords :
        /\ p # q
        /\ <<u, p>> \in registered
        /\ Len(data.users[u].transactions) > 0
        /\ login_user(data, u, p).ret.success
        /\ ~login_user(data, u, q).ret.success

\* the data without the user u
WithoutUser(d, u) ==
    [d EXCEPT !.users = [x \in (DOMAIN d.users) \ {u} |-> d.users[x]]]

\* C9: a failed login gives the same result, (False, "Invalid credentials."),
\* whether the username is absent or the password is wrong: in two states that
\* differ only in whether u exists, a failed login for u returns the same value.
C9_FailedLoginIndistinguishable ==
    \A u \in DOMAIN data.users, p \in AnyPassword :
        LET wrong == login_user(data, u, p).ret
            absent == login_user(WithoutUser(data, u), u, p).ret
        IN  ~wrong.success
                => /\ ~absent.success
                   /\ wrong = absent
                   /\ wrong = Return(FALSE, <<"Invalid credentials.">>)

\* a registered user whose login with a wrong password fails, and an
\* unregistered username whose login fails
C9_Witness ==
    /\ \E u \in DOMAIN data.users, p \in Passwords :
           ~login_user(data, u, p).ret.success
    /\ \E u \in UserNames \ DOMAIN data.users, p \in Passwords :
           ~login_user(data, u, p).ret.success

\* C10: login_user, successful or not, leaves the users mapping, the stokvels
\* mapping and the persisted store unchanged and triggers no save.
C10_LoginHasNoEffect ==
    \A u \in AnyUser, p \in AnyPassword :
        LET o == login_user(data, u, p)
        IN  /\ o.data = data
            /\ ~o.saved
            /\ StoreAfter(o) = store

\* a state whose in-memory data is ahead of an existing store, in which one
\* login succeeds and another fails
C10_Witness ==
    /\ store.exists
    /\ load_data(store).data # data
    /\ \E u \in AnyUser, p \in AnyPassword : login_user(data, u, p).ret.success
    /\ \E u \in AnyUser, p \in AnyPassword : ~login_user(data, u, p).ret.success

\* C11: once u is registered, register_user(u, p2) fails with "already
\* exists" for every p2 and leaves u's record unchanged, so the login with the
\* registered password still succeeds and the login with a different p2 fails.
C11_DuplicateRegistrationRejected ==
    \A u \in AnyUser, p \in AnyPassword, p2 \in AnyPassword :
        <<u, p>> \in registered
            => LET o == register_user(data, u, p2)
               IN  /\ o.ret = Return(FALSE, <<"Username already exists!">>)
                   /\ o.data = data
                   /\ login_user(o.data, u, p).ret.success
                   /\ p2 # p => ~login_user(o.data, u, p2).ret.success

\* two registered users, one of them with a stokvel and a transaction
C11_Witness ==
    /\ Cardinality(registered) = 2
    /\ \E u \in DOMAIN data.users :
           /\ Len(data.users[u].transactions) > 0
           /\ Len(data.users[u].stokvels) > 0

\* C12: register_user(u, p) with u not yet a key succeeds and creates exactly
\* one record for u, with balance 0, no transactions, no stokvels and the
\* digest of p as credential; the other users and the stokvels are unchanged.
C12_RegisterCreatesFreshUser ==
    \A u \in AnyUser, p \in AnyPassword :
        u \notin DOMAIN data.users
            => LET o == register_user(data, u, p)
               IN  /\ o.ret.raised = ""
                   /\ o.ret.success
                   /\ DOMAIN o.data.users = DOMAIN data.users \cup {u}
                   /\ o.data.users[u] = [password     |-> hash_password(p),
                                         balance      |-> Num(0),
                                         transactions |-> <<>>,
                                         stokvels     |-> <<>>]
                   /\ verify_password(p, o.data.users[u].password)
                   /\ \A x \in DOMAIN data.users : o.data.users[x] = data.users[x]
                   /\ o.data.stokvels = data.stokvels

\* one user registered, with a stokvel and a transaction, and a username
\* still free
C12_Witness ==
    /\ UserNames \ DOMAIN data.users # {}
    /\ \E x \in DOMAIN data.users : Len(data.users[x].transactions) > 0
    /\ DOMAIN data.stokvels # {}

\* C13: for a stokvel name s not yet present and a registered creator c,
\* create_stokvel(s, c) succeeds; afterwards the summary of s has
\* member_count 1, members [c], balance 0, created_by c, s has no
\* contributions and s is in c's stokvels list.
C13_CreateStokvelResult ==
    \A s \in AnyStokvel, c \in DOMAIN data.users, now \in Times :
        s \notin DOMAIN data.stokvels
            => LET o == create_stokvel(data, s, c, now)
                   summary == get_stokvel_summary(o.data, s)
               IN  /\ o.ret.raised = ""
                   /\ o.ret.success
                   /\ ~summary.none
                   /\ summary.member_count = 1
                   /\ summary.members = <<c>>
                   /\ summary.balance = Num(0)
                   /\ summary.total_contributions = Num(0)
                   /\ summary.created_by = c
                   /\ o.data.stokvels[s].contributions = <<>>
                   /\ InList(s, o.data.users[c].stokvels)

\* a registered user who already belongs to one stokvel, and a stokvel name
\* still free
C13_Witness ==
    /\ StokvelNames \ DOMAIN data.stokvels # {}
    /\ \E c \in DOMAIN data.users : Len(data.users[c].stokvels) > 0

\* C14: create_stokvel with a name that already exists fails with "already
\* exists" whoever the caller is, and leaves the stokvel and every user's
\* stokvels list (the whole data) unchanged.
C14_DuplicateStokvelRejected ==
    \A s \in DOMAIN data.stokvels, u \in AnyUser, now \in Times :
        LET o == create_stokvel(data, s, u, now)
        IN  /\ o.ret = Return(FALSE, <<"Stokvel already exists!">>)
            /\ o.data = data

\* a stokvel with two members and a contribution
C14_Witness ==
    \E s \in DOMAIN data.stokvels :
        /\ Len(data.stokvels[s].members) = 2
        /\ Len(data.stokvels[s].contributions) > 0

\* C15: join_stokvel(s, u) fails with "not found" when s is absent and with
\* "already a member" when u is in members(s), changing nothing; otherwise it
\* appends u to members(s) and s to u's stokvels list and leaves the balance
\* and the contributions of s unchanged.
C15_JoinStokvel ==
    \A s \in AnyStokvel, u \in AnyUser :
        LET o == join_stokvel(data, s, u)
        IN  /\ s \notin DOMAIN data.stokvels
                => /\ o.ret = Return(FALSE, <<"Stokvel not found.">>)
                   /\ o.data = data
            /\ IsMember(data, s, u)
                => /\ o.ret = Return(FALSE, <<"You are already a member of this stokvel.">>)
                   /\ o.data = data
            /\ (s \in DOMAIN data.stokvels /\ ~IsMember(data, s, u))
                => /\ o.data.stokvels[s].members = Append(data.stokvels[s].members, u)
                   /\ o.data.stokvels[s].balance = data.stokvels[s].balance
                   /\ o.data.stokvels[s].contributions = data.stokvels[s].contributions
                   /\ u \in DOMAIN o.data.users
                   /\ u \in DOMAIN data.users
                   /\ o.data.users[u].stokvels = Append(data.users[u].stokvels, s)

\* C16: write-through: at every operation boundary the persisted store holds
\* the current in-memory state, so loading it gives the same users and
\* stokvels.
C16_WriteThrough ==
    load_data(store).data = data

C18_LoadMissingStoreIsEmpty ==
    ~store.exists => load_data(store) = [raised |-> "", data |-> EmptyState]

\* no store has been written while the process holds a state that is not empty
C18_Witness ==
    /\ ~store.exists
    /\ data # EmptyState

IsPrefix(a, b) == Len(a) <= Len(b) /\ SubSeq(b, 1, Len(a)) = a

\* C19: across every step, each stokvel's contributions and each user's
\* transactions after the step have the sequence before the step as a prefix.
C19_AppendOnly ==
    [][ /\ \A s \in DOMAIN data.stokvels :
               /\ s \in DOMAIN data'.stokvels
               /\ IsPrefix(data.stokvels[s].contributions,
                           data'.stokvels[s].contributions)
        /\ \A u \in DOMAIN data.users :
               /\ u \in DOMAIN data'.users
               /\ IsPrefix(data.users[u].transactions, data'.users[u].transactions)
      ]_vars

\* a stokvel with two contributions and a user with two transactions that
\* differ
C19_Witness ==
    /\ \E s \in DOMAIN data.stokvels : Len(data.stokvels[s].contributions) = 2
    /\ \E u \in DOMAIN data.users :
           /\ Len(data.users[u].transactions) = 2
           /\ data.users[u].transactions[1] # data.users[u].transactions[2]

SameKeys(d, e) == DOMAIN d.users = DOMAIN e.users /\ DOMAIN d.stokvels = DOMAIN e.stokvels

\* C20: no call removes a user or a stokvel key; only a successful
\* register_user adds a user key and only a successful create_stokvel adds a
\* stokvel key.
C20_KeysGrowOnlyBySuccessfulCreation ==
    /\ \A u \in AnyUser, p \in AnyPassword :
           LET o == register_user(data, u, p)
           IN  /\ DOMAIN data.users \subseteq DOMAIN o.data.users
               /\ DOMAIN o.data.stokvels = DOMAIN data.stokvels
               /\ ~o.ret.success => SameKeys(o.data, data)
    /\ \A s \in AnyStokvel, u \in AnyUser, now \in Times :
           LET o == create_stokvel(data, s, u, now)
           IN  /\ DOMAIN data.stokvels \subseteq DOMAIN o.data.stokvels
               /\ DOMAIN o.data.users = DOMAIN data.users
               /\ ~o.ret.success => SameKeys(o.data, data)
    /\ \A u \in AnyUser, p \in AnyPassword :
           SameKeys(login_user(data, u, p).data, data)
    /\ \A s \in AnyStokvel, u \in AnyUser :
           SameKeys(join_stokvel(data, s, u).data, data)
    /\ \A s \in AnyStokvel, a \in Amounts, u \in AnyUser, now \in Times :
           SameKeys(contribute(data, s, a, u, now).data, data)
    /\ \A u \in AnyUser, a \in Amounts :
           SameKeys(update_user_balance(data, u, a).data, data)
    /\ \A u \in AnyUser :
           SameKeys(add_user_transaction(data, u, <<"note">>).data, data)

\* number of positions of list l that hold x
Occurrences(x, l) == Cardinality({i \in 1..Len(l) : l[i] = x})

\* C21: for every stokvel, created_by is the first element of the members
\* list, and no join_stokvel or contribute call changes created_by,
\* created_date or the first member.
C21_CreatorStaysFirstMember ==
    \A s \in DOMAIN data.stokvels :
        /\ Len(data.stokvels[s].members) >= 1
        /\ data.stokvels[s].members[1] = data.stokvels[s].created_by
        /\ \A n \in AnyStokvel, u \in AnyUser :
               LET e == join_stokvel(data, n, u).data.stokvels[s]
               IN  /\ e.created_by = data.stokvels[s].created_by
                   /\ e.created_date = data.stokvels[s].created_date
                   /\ e.members[1] = data.stokvels[s].members[1]
        /\ \A n \in AnyStokvel, a \in Amounts, u \in AnyUser, now \in Times :
               LET e == contribute(data, n, a, u, now).data.stokvels[s]
               IN  /\ e.created_by = data.stokvels[s].created_by
                   /\ e.created_date = data.stokvels[s].created_date
                   /\ e.members[1] = data.stokvels[s].members[1]

\* a stokvel created at the later date, joined by a second member and
\* contributed to
C21_Witness ==
    \E s \in DOMAIN data.stokvels :
        /\ data.stokvels[s].created_date = 2
        /\ Len(data.stokvels[s].members) = 2
        /\ Len(data.stokvels[s].contributions) > 0

\* C22: in every reachable state, update_user_balance and contribute called
\* with any amount included, every user's balance and every stokvel's balance
\* is >= 0.
C22_BalancesNonNegative ==
    /\ \A u \in DOMAIN data.users : fle(Num(0), data.users[u].balance)
    /\ \A s \in DOMAIN data.stokvels : fle(Num(0), data.stokvels[s].balance)

\* C23: no username occurs twice in a stokvel's members list and no stokvel
\* name occurs twice in a user's stokvels list, so the member_count of the
\* summary is the number of distinct members.
C23_MembersAndStokvelsAreSets ==
    /\ \A s \in DOMAIN data.stokvels :
           /\ \A u \in AnyUser : Occurrences(u, data.stokvels[s].members) <= 1
           /\ get_stokvel_summary(data, s).member_count =
                  Cardinality({data.stokvels[s].members[i] :
                                   i \in 1..Len(data.stokvels[s].members)})
    /\ \A u \in DOMAIN data.users :
           \A s \in AnyStokvel : Occurrences(s, data.users[u].stokvels) <= 1

\* a user in two stokvels, one of them with two members, and a member that
\* registered only after having been put in a members list
C23_Witness ==
    /\ \E u \in DOMAIN data.users : Len(data.users[u].stokvels) = 2
    /\ \E s \in DOMAIN data.stokvels : Len(data.stokvels[s].members) = 2
    /\ \E s \in DOMAIN data.stokvels, u \in DOMAIN data.users :
           IsMember(data, s, u) /\ ~InList(s, data.users[u].stokvels)

\* C24: get_stokvel_summary returns None for a name that is not a stokvel and
\* otherwise a summary of that stokvel; in both cases the in-memory state and
\* the store are unchanged.
C24_SummaryIsReadOnly ==
    \A s \in AnyStokvel :
        LET o == get_stokvel_summary_call(data, s)
        IN  /\ o.data = data
            /\ StoreAfter(o) = store
            /\ s \notin DOMAIN data.stokvels => o.ret.none
            /\ s \in DOMAIN data.stokvels =>
                   /\ ~o.ret.none
                   /\ o.ret.name = s
                   /\ o.ret.balance = data.stokvels[s].balance
                   /\ o.ret.members = data.stokvels[s].members
                   /\ o.ret.member_count = Len(data.stokvels[s].members)
                   /\ o.ret.created_by = data.stokvels[s].created_by
                   /\ o.ret.created_date = data.stokvels[s].created_date

\* a stokvel with contributions, in a state the store does not hold
C24_Witness ==
    /\ \E s \in DOMAIN data.stokvels : Len(data.stokvels[s].contributions) > 0
    /\ load_data(store).data # data

\* C27: every username in a stokvel's members list and every user named in a
\* contribution record is a key of the users mapping, and the stokvel's name
\* is in that user's stokvels list.
C27_MembersAreUsersOfTheStokvel ==
    \A s \in DOMAIN data.stokvels :
        /\ \A i \in 1..Len(data.stokvels[s].members) :
               LET u == data.stokvels[s].members[i]
               IN  /\ u \in DOMAIN data.users
                   /\ InList(s, data.users[u].stokvels)
        /\ \A i \in 1..Len(data.stokvels[s].contributions) :
               LET u == data.stokvels[s].contributions[i].user
               IN  /\ u \in DOMAIN data.users
                   /\ InList(s, data.users[u].stokvels)

\* C29: a successful contribute(s, amount, u) changes only the balance and
\* the contributions of s and the transactions of u.
C29_ContributeFrame ==
    \A s \in AnyStokvel, a \in Amounts, u \in AnyUser, now \in Times :
        LET o == contribute(data, s, a, u, now)
        IN  (o.ret.raised = "" /\ o.ret.success)
                => /\ SameKeys(o.data, data)
                   /\ o.data.stokvels[s].members = data.stokvels[s].members
                   /\ o.data.stokvels[s].created_by = data.stokvels[s].created_by
                   /\ o.data.stokvels[s].created_date = data.stokvels[s].created_date
                   /\ \A x \in DOMAIN data.stokvels \ {s} :
                          o.data.stokvels[x] = data.stokvels[x]
                   /\ \A x \in DOMAIN data.users \ {u} : o.data.users[x] = data.users[x]
                   /\ o.data.users[u].balance = data.users[u].balance
                   /\ o.data.users[u].password = data.users[u].password
                   /\ o.data.users[u].stokvels = data.users[u].stokvels

\* two stokvels and two users, one of whom is a member of a stokvel and can
\* contribute
C29_Witness ==
    /\ Cardinality(DOMAIN data.stokvels) = 2
    /\ Cardinality(DOMAIN data.users) = 2
    /\ \E s \in DOMAIN data.stokvels, u \in DOMAIN data.users :
           /\ IsMember(data, s, u)
           /\ Len(data.stokvels[s].contributions) > 0

\* C30: under any sequence of register_user, login_user, create_stokvel,
\* join_stokvel and contribute calls every user's balance is 0, and a
\* contribute call leaves the balance of every user as it was.
C30_UserBalanceStaysZero ==
    /\ \A u \in DOMAIN data.users : data.users[u].balance = Num(0)
    /\ \A s \in AnyStokvel, a \in Amounts, u \in AnyUser, now \in Times :
           LET o == contribute(data, s, a, u, now)
           IN  \A x \in DOMAIN data.users :
                   o.data.users[x].balance = data.users[x].balance

\* a user who has contributed twice
C30_Witness ==
    \E u \in DOMAIN data.users : Len(data.users[u].transactions) = 2

\* C26: validate_amount returns (amount, None) exactly when the string parses
\* as a number greater than 0, (None, "Amount must be positive") when it
\* parses as a number <= 0 and (None, "Invalid amount format") when it does
\* not parse; it never returns both an amount and an error, and never an
\* amount that is not positive.  Stated for the strings a logged-in user
\* can type at the amount prompt.
C26_ValidateAmount ==
    current_user # <<>> =>
    \A s \in StringsUpTo(MaxAmountLen) :
        LET r == validate_amount(s)
            parsed == float(s)
        IN  /\ (r.amount # <<>> /\ r.error = <<>>)
                   <=> (parsed.raised = "" /\ fgt(parsed.value, Num(0)))
            /\ (parsed.raised = "" /\ fle(parsed.value, Num(0)))
                   => r = AmountResult(<<>>, <<"Amount must be positive">>)
            /\ parsed.raised # ""
                   => r = AmountResult(<<>>, <<"Invalid amount format">>)
            /\ ~(r.amount # <<>> /\ r.error # <<>>)
            /\ r.amount # <<>> => fgt(r.amount[1], Num(0))

\* C28: current_user is None or a registered username of the loaded state; it
\* is set only by a successful login and cleared only by logout (or a new
\* process), so every create_stokvel and contribute call of the front end
\* names a registered user.
C28_CurrentUserIsRegistered ==
    [][ /\ current_user' # <<>> =>
               /\ current_user'[1] \in DOMAIN data'.users
               /\ \E p \in Passwords : <<current_user'[1], p>> \in registered'
        /\ (current_user' # current_user /\ current_user' # <<>>) =>
               /\ current_user = <<>>
               /\ \E p \in Passwords :
                      login_user(data, current_user'[1], p).ret.success
      ]_vars

\* a logged-in user who has created a stokvel and contributed to it, after
\* the other user has logged out
C28_Witness ==
    /\ current_user # <<>>
    /\ Cardinality(registered) = 2
    /\ Len(data.users[current_user[1]].transactions) > 0
    /\ \E u \in DOMAIN data.users :
           u # current_user[1] /\ Len(data.users[u].stokvels) > 0

\* what the caller gets from a mutating call that reached save_data while the
\* store refuses the write: an exception, no success, one write attempt, and
\* the store as it was
FailsFatally(o) ==
    o.saved =>
        LET r == Persisted(o, store, FALSE)
        IN  /\ r.ret.raised # ""
            /\ ~r.ret.success
            /\ r.writes = 1
            /\ r.store = store

\* C25: when the store write fails during register_user, create_stokvel,
\* join_stokvel or contribute, the failure reaches the caller as an error in
\* place of a (success, message) result, the write is not retried and the
\* operation does not report success.
C25_WriteFailureIsFatal ==
    /\ \A u \in AnyUser, p \in AnyPassword : FailsFatally(register_user(data, u, p))
    /\ \A s \in AnyStokvel, u \in AnyUser, now \in Times :
           FailsFatally(create_stokvel(data, s, u, now))
    /\ \A s \in AnyStokvel, u \in AnyUser : FailsFatally(join_stokvel(data, s, u))
    /\ \A s \in AnyStokvel, a \in Amounts, u \in AnyUser, now \in Times :
           FailsFatally(contribute(data, s, a, u, now))

\* a store written earlier that lacks a registered user and a contribution
\* whose writes failed
C25_Witness ==
    /\ store.exists
    /\ \E u \in DOMAIN data.users : u \notin DOMAIN load_data(store).data.users
    /\ \E s \in DOMAIN data.stokvels :
           /\ s \in DOMAIN load_data(store).data.stokvels
           /\ Len(data.stokvels[s].contributions) >
                  Len(load_data(store).data.stokvels[s].contributions)
           /\ \A i \in 1..Len(data.stokvels[s].members) :
                  data.stokvels[s].members[i] \in DOMAIN data.users

====
